---- MODULE Spec2Model ----
(***************************************************************************)
(* Registration and login of the Library Management System scripts against *)
(* the users collection: the Streamlit form (authenction.py), the argon2   *)
(* console login (argon.py) and the bcrypt console login (auth.py).        *)
(***************************************************************************)
EXTENDS Integers, Sequences, FiniteSets, TLC

VARIABLES
  store,  \* the users collection: documents in insertion order
  last,   \* the last whole invocation: script, inputs, messages shown,
          \* uncaught exception, store calls made, store it started from
  sess    \* per form session: position inside the register handler

vars == <<store, last, sess>>

\* ------------------------------------------------------------------ bounds
MaxSalt == 2
MaxRecords == 3

Usernames == {"", "a", "b"}
Passwords == {"", "x", "y"}
Salts == 1..MaxSalt
Sessions == {1, 2}

\* ---------------------------------------------------------------- messages
Authenticated == "Login successful"
Rejected == "Incorrect password"
MalformedHash == "Invalid password hash!"
NotFound == "User not found. You can register below."
EnterUsername == "Please enter a username."
EnterPassword == "Please enter a password."
AlreadyExists == "Username already exists!"
Created == "Registration successful"

\* ------------------------------------------------------------------- store
\* collection.find_one({"username": u}): the first matching document, or None
None == <<>>

Matching(st, u) == {i \in 1..Len(st) : st[i].username = u}

find_one(st, u) ==
  IF Matching(st, u) = {} THEN None
  ELSE <<st[CHOOSE i \in Matching(st, u) : \A j \in Matching(st, u) : i <= j]>>

\* collection.insert_one(doc): the collection has no unique index
insert_one(st, doc) == Append(st, doc)

\* ----------------------------------------------------------------- hashing
\* ph.hash(p): a self-describing blob with a random salt
ph_hash(p, salt) == [scheme |-> "argon2", salt |-> salt, pw |-> p]

\* ph.verify(blob, p): True, or raises (it never returns False)
ph_verify(blob, p) ==
  IF blob.scheme # "argon2" THEN "InvalidHashError"
  ELSE IF blob.pw = p THEN "True"
  ELSE "VerifyMismatchError"

\* en.checkpw(p.encode(), blob): True/False on a bcrypt blob, raises on a str
\* (argon2 blobs are str) or on bytes that are not a bcrypt hash
checkpw(p, blob) ==
  IF blob.scheme = "argon2" THEN "TypeError"
  ELSE IF blob.scheme # "bcrypt" THEN "ValueError"
  ELSE IF blob.pw = p THEN "True"
  ELSE "False"

\* ------------------------------------------------------------------- login
\* authenction.py: if login_button: ...
LoginRehashes(st, u, p) ==
  LET user == find_one(st, u) IN
  IF user # None
  THEN IF ph_verify(user[1].password, p) = "True"
       THEN [store |-> [i \in 1..Len(st) |->
                          IF st[i] = user[1]
                          THEN [st[i] EXCEPT !.password =
                                  ph_hash(p, (st[i].password.salt % MaxSalt) + 1)]
                          ELSE st[i]],
             out |-> <<Authenticated>>, crashed |-> FALSE, lookups |-> 1, inserts |-> 0]
       ELSE [store |-> st, out |-> <<MalformedHash>>, crashed |-> FALSE,
             lookups |-> 1, inserts |-> 0]
  ELSE [store |-> st, out |-> <<NotFound>>, crashed |-> FALSE, lookups |-> 1, inserts |-> 0]

login_button(st, u, p) ==
  LET user == find_one(st, u) IN
  IF user # None
  THEN IF ph_verify(user[1].password, p) = "True"
       THEN [store |-> st, out |-> <<Authenticated>>, crashed |-> FALSE,
             lookups |-> 1, inserts |-> 0]
       ELSE \* ph.verify raised: every exception lands in the bare except
            [store |-> st, out |-> <<MalformedHash>>, crashed |-> FALSE,
             lookups |-> 1, inserts |-> 0]
  ELSE [store |-> st, out |-> <<NotFound>>, crashed |-> FALSE, lookups |-> 1, inserts |-> 0]

\* argon.py: two lookups, no else branch, no try
argon_login(st, u, p) ==
  IF find_one(st, u) # None
  THEN LET user == find_one(st, u)[1].password IN
       IF ph_verify(user, p) = "True"
       THEN [store |-> st, out |-> <<Authenticated>>, crashed |-> FALSE,
             lookups |-> 2, inserts |-> 0]
       ELSE [store |-> st, out |-> <<>>, crashed |-> TRUE, lookups |-> 2, inserts |-> 0]
  ELSE [store |-> st, out |-> <<>>, crashed |-> FALSE, lookups |-> 1, inserts |-> 0]

\* auth.py: two lookups, no else branch, no try
bcrypt_login(st, u, p) ==
  IF find_one(st, u) # None
  THEN LET user == find_one(st, u)[1].password
           r == checkpw(p, user) IN
       IF r = "True"
       THEN [store |-> st, out |-> <<Authenticated>>, crashed |-> FALSE,
             lookups |-> 2, inserts |-> 0]
       ELSE IF r = "False"
       THEN [store |-> st, out |-> <<Rejected>>, crashed |-> FALSE,
             lookups |-> 2, inserts |-> 0]
       ELSE [store |-> st, out |-> <<>>, crashed |-> TRUE, lookups |-> 2, inserts |-> 0]
  ELSE [store |-> st, out |-> <<>>, crashed |-> FALSE, lookups |-> 1, inserts |-> 0]

\* ---------------------------------------------------------------- register
\* the two warnings of lines 52-55: the second `if` is not an `elif`
reg_warnings(u, p) ==
  (IF u = "" THEN <<EnterUsername>> ELSE <<>>) \o
  (IF p = "" THEN <<EnterPassword>> ELSE <<>>)

RegisterNoLookup(st, u, p, salt) ==
  IF p = ""
  THEN [store |-> st, out |-> reg_warnings(u, p), crashed |-> FALSE,
        lookups |-> 0, inserts |-> 0]
  ELSE [store |-> insert_one(st, [username |-> u, password |-> ph_hash(p, salt)]),
        out |-> reg_warnings(u, p) \o <<Created>>, crashed |-> FALSE,
        lookups |-> 0, inserts |-> 1]

RegisterPlaintext(st, u, p, salt) ==
  IF p = ""
  THEN [store |-> st, out |-> reg_warnings(u, p), crashed |-> FALSE,
        lookups |-> 0, inserts |-> 0]
  ELSE IF find_one(st, u) # None
  THEN [store |-> st, out |-> reg_warnings(u, p) \o <<AlreadyExists>>,
        crashed |-> FALSE, lookups |-> 1, inserts |-> 0]
  ELSE [store |-> insert_one(st, [username |-> u,
                                  password |-> [scheme |-> "plain", salt |-> 0, pw |-> p]]),
        out |-> reg_warnings(u, p) \o <<Created>>, crashed |-> FALSE,
        lookups |-> 1, inserts |-> 1]

RegisterOverwrites(st, u, p, salt) ==
  IF p = ""
  THEN [store |-> st, out |-> reg_warnings(u, p), crashed |-> FALSE,
        lookups |-> 0, inserts |-> 0]
  ELSE IF find_one(st, u) # None
  THEN [store |-> [i \in 1..Len(st) |->
                     IF st[i].username = u
                     THEN [st[i] EXCEPT !.password = ph_hash(p, salt)]
                     ELSE st[i]],
        out |-> reg_warnings(u, p) \o <<AlreadyExists>>,
        crashed |-> FALSE, lookups |-> 1, inserts |-> 0]
  ELSE [store |-> insert_one(st, [username |-> u, password |-> ph_hash(p, salt)]),
        out |-> reg_warnings(u, p) \o <<Created>>, crashed |-> FALSE,
        lookups |-> 1, inserts |-> 1]

\* authenction.py: if register_button: ...
register_button(st, u, p, salt) ==
  IF p = ""
  THEN [store |-> st, out |-> reg_warnings(u, p), crashed |-> FALSE,
        lookups |-> 0, inserts |-> 0]
  ELSE IF find_one(st, u) # None
  THEN [store |-> st, out |-> reg_warnings(u, p) \o <<AlreadyExists>>,
        crashed |-> FALSE, lookups |-> 1, inserts |-> 0]
  ELSE [store |-> insert_one(st, [username |-> u, password |-> ph_hash(p, salt)]),
        out |-> reg_warnings(u, p) \o <<Created>>, crashed |-> FALSE,
        lookups |-> 1, inserts |-> 1]

\* ------------------------------------------------------ state and actions
Idle == [pc |-> "idle", user |-> "", pw |-> "", out |-> <<>>]

NoOp == [op |-> "none", script |-> "none", user |-> "", pw |-> "", out |-> <<>>,
         crashed |-> FALSE, lookups |-> 0, inserts |-> 0, pre |-> <<>>,
         fresh |-> FALSE]

Init ==
  /\ store = <<>>
  /\ last = NoOp
  /\ sess = [s \in Sessions |-> Idle]

\* one whole invocation: `pre` is the store it started from, `fresh` tells
\* that the invocation before it was the register(u, p) that inserted u
Done(op, script, u, p, r) ==
  /\ Len(r.store) <= MaxRecords
  /\ store' = r.store
  /\ last' = [op |-> op, script |-> script, user |-> u, pw |-> p, out |-> r.out,
              crashed |-> r.crashed, lookups |-> r.lookups, inserts |-> r.inserts,
              pre |-> store,
              fresh |-> /\ last.op = "register" /\ last.inserts = 1
                        /\ last.user = u /\ last.pw = p]
  /\ UNCHANGED sess

Register ==
  \E u \in Usernames, p \in Passwords, salt \in Salts :
    Done("register", "authenction", u, p, register_button(store, u, p, salt))

Login ==
  \E u \in Usernames, p \in Passwords :
    Done("login", "authenction", u, p, login_button(store, u, p))

LoginArgon ==
  \E u \in Usernames, p \in Passwords :
    Done("login", "argon", u, p, argon_login(store, u, p))

LoginBcrypt ==
  \E u \in Usernames, p \in Passwords :
    Done("login", "auth", u, p, bcrypt_login(store, u, p))

Next == Register \/ Login \/ LoginArgon \/ LoginBcrypt

Spec == Init /\ [][Next]_vars

\* ------------------------------------------- two concurrent form sessions
\* Each Streamlit session runs the script in its own thread; the store
\* serializes the individual find_one and insert_one calls.
RegClick(s) ==
  \E u \in Usernames, p \in Passwords :
    /\ sess[s].pc = "idle"
    /\ sess' = [sess EXCEPT ![s] = [pc |-> IF p = "" THEN "done" ELSE "find",
                                    user |-> u, pw |-> p, out |-> reg_warnings(u, p)]]
    /\ UNCHANGED <<store, last>>

RegFind(s) ==
  /\ sess[s].pc = "find"
  /\ sess' = [sess EXCEPT ![s] =
                IF find_one(store, sess[s].user) # None
                THEN [@ EXCEPT !.pc = "done", !.out = @ \o <<AlreadyExists>>]
                ELSE [@ EXCEPT !.pc = "insert"]]
  /\ UNCHANGED <<store, last>>

RegInsert(s) ==
  \E salt \in Salts :
    /\ sess[s].pc = "insert"
    /\ Len(store) < MaxRecords
    /\ store' = insert_one(store, [username |-> sess[s].user,
                                   password |-> ph_hash(sess[s].pw, salt)])
    /\ sess' = [sess EXCEPT ![s] = [@ EXCEPT !.pc = "done", !.out = @ \o <<Created>>]]
    /\ UNCHANGED last

NextConc == \E s \in Sessions : RegClick(s) \/ RegFind(s) \/ RegInsert(s)

SpecConc == Init /\ [][NextConc]_vars

\* ------------------------------------------------------------- properties
Count(st, u) == Cardinality(Matching(st, u))

Outcome(out) == IF out = <<>> THEN "none" ELSE out[Len(out)]

Existed == find_one(last.pre, last.user) # None

StoredHash == find_one(last.pre, last.user)[1].password

\* C1: register("", p) and register(u, "") are both rejected: no lookup, no
\* insert, and the store is the same after the invocation as before it.
C1_EmptyFieldRejected ==
  (last.op = "register" /\ (last.user = "" \/ last.pw = ""))
    => /\ last.lookups = 0
       /\ last.inserts = 0
       /\ store = last.pre
       /\ Created \notin {last.out[i] : i \in 1..Len(last.out)}

\* C2: after register(u, p) created a record, login(u, p2) with p2 # p in the
\* argon2 scripts ends with "Incorrect password", not with the malformed-hash
\* outcome and not with an uncaught exception.
C2_WrongPasswordRejected ==
  (/\ last.op = "login" /\ last.script \in {"authenction", "argon"}
   /\ Existed /\ StoredHash.scheme = "argon2" /\ StoredHash.pw # last.pw)
    => (last.out = <<Rejected>> /\ ~last.crashed)

\* C3: for a non-empty username without a record and a non-empty password,
\* register(u, p) followed immediately by the form's login(u, p) reports
\* "Login successful".
C3_RegisterThenVerify ==
  (/\ last.op = "login" /\ last.script = "authenction" /\ last.fresh
   /\ last.user # "" /\ last.pw # "")
    => (last.out = <<Authenticated>> /\ ~last.crashed)

C3_Witness ==
  /\ last.op = "login" /\ last.script = "authenction" /\ last.fresh
  /\ last.user = "a" /\ last.pw = "x" /\ last.out = <<Authenticated>>

\* C4: from the empty store, under invocations run one after another, the
\* store holds at most one record per username.
C4_AtMostOnePerUsername == \A u \in Usernames : Count(store, u) <= 1

C4_Witness ==
  /\ last.op = "register" /\ Existed /\ last.pw # ""
  /\ Len(store) = 3 /\ \A u \in Usernames : Count(store, u) = 1

\* C5 as stated: when a record for u exists, register(u, p') for ANY p'
\* reports "Username already exists!", inserts nothing and keeps the store.
C5_Original ==
  (last.op = "register" /\ Existed)
    => /\ Outcome(last.out) = AlreadyExists
       /\ last.inserts = 0
       /\ store = last.pre

\* C5 amended: when a record for u exists, register(u, p') for any NON-EMPTY
\* p' reports "Username already exists!", inserts nothing and leaves the
\* store, hence the hash of the first registration, unchanged.
C5_ExistingUserKept ==
  (last.op = "register" /\ Existed /\ last.pw # "")
    => /\ Outcome(last.out) = AlreadyExists
       /\ last.inserts = 0
       /\ store = last.pre
       /\ find_one(store, last.user)[1].password = StoredHash

C5_Witness ==
  /\ last.op = "register" /\ Existed /\ last.user = "a" /\ last.pw = "y"
  /\ StoredHash.pw = "x" /\ Outcome(last.out) = AlreadyExists

\* C6: for a username without a record every login script reports
\* "User not found".
C6_UnknownUserNotFound ==
  (last.op = "login" /\ ~Existed) => last.out = <<NotFound>>

\* C7: when the stored hash is not one of the script's own scheme, every
\* login script ends with the malformed-hash outcome and never with an
\* uncaught exception.
SchemeOf(script) == IF script = "auth" THEN "bcrypt" ELSE "argon2"

C7_ForeignHashMalformed ==
  (last.op = "login" /\ Existed /\ StoredHash.scheme # SchemeOf(last.script))
    => (last.out = <<MalformedHash>> /\ ~last.crashed)

\* C9: a login invocation leaves the store as it found it, whatever its
\* outcome, in each of the three scripts.
C9_LoginReadOnly == (last.op = "login") => store = last.pre

C9_Witness ==
  /\ last.op = "login" /\ last.script = "authenction"
  /\ last.out = <<Authenticated>> /\ Len(store) >= 2 /\ store = last.pre

\* C10: two concurrent register invocations for the same non-empty username,
\* with only the single find_one and insert_one calls serialized, leave at
\* most one record for it and at most one of them reports success.
C10_NoLockNeeded ==
  \A u \in Usernames \ {""} :
    /\ Count(store, u) <= 1
    /\ Cardinality({s \in Sessions : /\ sess[s].pc = "done" /\ sess[s].user = u
                                     /\ Outcome(sess[s].out) = Created}) <= 1

====
